---------------------------- MODULE Spec2Model ----------------------------
(***************************************************************************)
(* Client-side orchestration around the ApplyGuardrail API and the RAG     *)
(* retrieval helper of the generative-ai-on-amazon-sagemaker notebooks.    *)
(*                                                                         *)
(*  - TextGenerationWithGuardrails (task_04_responsible_ai/04.01 notebook) *)
(*      analyze_text / analyze_prompt / analyze_output / generate_text /   *)
(*      generate_and_analyze                                               *)
(*  - apply_output_guardrail and retrieve_context (RAG workshop notebook)  *)
(*                                                                         *)
(* The guardrail service, the model endpoint, the embedding endpoint and   *)
(* the vector index are remote: a call to one of them is a step that       *)
(* issues the request, and its answer (a response of any shape the API     *)
(* allows, or an exception) is a later step chosen nondeterministically.   *)
(*                                                                         *)
(* Python values: a dict is a function from a set of keys, a list is a     *)
(* sequence, None / "not yet assigned" is the empty sequence <<>> and an   *)
(* assigned optional value v is <<v>>.                                     *)
(***************************************************************************)
EXTENDS Integers, Sequences, FiniteSets, TLC

(***************************************************************************)
(* Bounds of the model.                                                    *)
(***************************************************************************)
\* longest outputs list the guardrail service returns
MaxOutputs == 2
\* largest k retrieve_context is called with
MaxK == 3

(***************************************************************************)
(* Program constants.                                                      *)
(***************************************************************************)
\* generate_and_analyze(..., max_new_tokens: int = 256, ...)
DefaultMaxNewTokens == 256
\* main(): max_new_tokens = 512
MainMaxNewTokens == 512
\* retrieve_context(query, k=3)
DefaultK == 3

(***************************************************************************)
(* Python dict helpers.                                                    *)
(***************************************************************************)
EmptyDict == [key \in {} |-> ""]

\* d.get(key, default)
Get(d, key, default) == IF key \in DOMAIN d THEN d[key] ELSE default

\* key in d
Has(d, key) == key \in DOMAIN d

\* all sequences over S of length at most n
RECURSIVE SeqsUpTo(_, _)
SeqsUpTo(S, n) ==
    IF n = 0 THEN { <<>> }
    ELSE LET shorter == SeqsUpTo(S, n - 1)
         IN  shorter \cup { Append(s, x) : s \in { t \in shorter : Len(t) = n - 1 }, x \in S }

(***************************************************************************)
(* Values exchanged with the remote services.                              *)
(***************************************************************************)
Queries == { "q1", "q2" }
GroundingSources == { "g1" }

\* texts the model endpoint generates
ModelTexts == { "t1", "t2" }
\* predictor.predict answers: a dict that has, or lacks, 'generated_text'
PredictResponses == { [generated_text |-> t] : t \in ModelTexts } \cup { EmptyDict }

\* texts the guardrail puts in outputs[].text: its configured blocked
\* messaging, or the guarded content with the sensitive parts masked
GuardrailTexts == { "blocked-messaging", "masked-content" }
\* one entry of outputs: {'text': ...}; the field is optional in the API
OutputEntries == { [text |-> m] : m \in GuardrailTexts } \cup { EmptyDict }
OutputLists == SeqsUpTo(OutputEntries, MaxOutputs)
\* the action field; "BLOCKED" stands for a value the client does not know
ActionValues == { "NONE", "GUARDRAIL_INTERVENED", "BLOCKED" }
\* apply_guardrail answers: every combination of present / absent fields
GuardrailResponses ==
    { EmptyDict }
    \cup { [action |-> a] : a \in ActionValues }
    \cup { [outputs |-> o] : o \in OutputLists }
    \cup { [action |-> a, outputs |-> o] : a \in ActionValues, o \in OutputLists }

\* the outcome of a call: a returned value, or a raised exception
Return(v) == [raised |-> "", value |-> v]
Raise(e) == [raised |-> e, value |-> <<>>]

VARIABLES
    \* TextGenerationWithGuardrails object (set by __init__)
    self,
    \* generate_and_analyze: position, arguments, locals, outcome
    pc, args, prompt_result, generated_text, output_result, result, exc,
    \* remote traffic of the current generate_and_analyze invocation
    calls, input_response, model_response, output_response, guardrail_error,
    \* a direct call of analyze_text: position, arguments, request, answer, outcome
    at_pc, at_args, at_call, at_response, at_outcome,
    \* apply_output_guardrail: position, argument, request, answer, exception
    \* met inside its try block, returned value
    aog_pc, aog_output_text, aog_call, aog_response, aog_fault, aog_result,
    \* retrieve_context: position, arguments, requests, embedding, search
    \* answer, returned list
    rc_pc, rc_args, rc_calls, rc_embedding, rc_response, rc_result,
    \* a RAG query cell: position, query, context_prompt, input_prompt, the
    \* request to and the answer of the model endpoint, raw_response,
    \* guardrail_response, exception that ended the cell
    cell_pc, cell_notebook, cell_query, cell_context_prompt, cell_input_prompt, cell_llm_call,
    cell_llm_response, cell_raw_response, cell_guardrail_response, cell_exc,
    \* main(): position, query and grounding source, remote calls, the
    \* tuples analyze_prompt and analyze_output returned, generated_text,
    \* what was printed as the outcome, exception that ended it
    main_pc, main_args, main_calls, main_input, main_generated_text, main_output,
    main_outcome, main_exc,
    \* a finished generate_and_analyze invocation kept for comparison
    memo

ga_vars == << pc, args, prompt_result, generated_text, output_result, result, exc,
              calls, input_response, model_response, output_response, guardrail_error >>

at_vars == << at_pc, at_args, at_call, at_response, at_outcome >>

aog_vars == << aog_pc, aog_output_text, aog_call, aog_response, aog_fault, aog_result >>

rc_vars == << rc_pc, rc_args, rc_calls, rc_embedding, rc_response, rc_result >>

cell_vars == << cell_pc, cell_notebook, cell_query, cell_context_prompt, cell_input_prompt, cell_llm_call,
                cell_llm_response, cell_raw_response, cell_guardrail_response, cell_exc >>

main_vars == << main_pc, main_args, main_calls, main_input, main_generated_text,
                main_output, main_outcome, main_exc >>

vars == << self, ga_vars, at_vars, aog_vars, rc_vars, cell_vars, main_vars, memo >>

(***************************************************************************)
(* TextGenerationWithGuardrails                                            *)
(***************************************************************************)
\* __init__: the fields main() constructs the object with
NewTextGenerationWithGuardrails ==
    [ predictor |-> "endpoint",
      model_id |-> "deepseek-llm-r1-distill-llama-8b",
      guardrail_id |-> "guardrail-id",
      guardrail_version |-> "DRAFT" ]

\* faulty variant: the prompt keeps the turns of the request served before
generate_text_request_keeps_history(inputs, max_new_tokens, temperature) ==
    [ api |-> "predict",
      endpoint |-> self.predictor,
      inputs |-> IF memo # <<>> THEN "earlier-turns-and-query" ELSE inputs,
      parameters |-> [ max_new_tokens |-> max_new_tokens,
                       temperature |-> temperature,
                       stop |-> "<|eot_id|>" ] ]

\* generate_text: the payload sent to predictor.predict
generate_text_request(inputs, max_new_tokens, temperature) ==
    [ api |-> "predict",
      endpoint |-> self.predictor,
      inputs |-> inputs,
      parameters |-> [ max_new_tokens |-> max_new_tokens,
                       temperature |-> temperature,
                       stop |-> "<|eot_id|>" ] ]

\* generate_text: response.get('generated_text', '')
generate_text_result(response) == Get(response, "generated_text", "")

\* analyze_text: the apply_guardrail request
analyze_text_request(grounding_source, query, guard_content, source) ==
    [ api |-> "apply_guardrail",
      guardrailIdentifier |-> self.guardrail_id,
      guardrailVersion |-> self.guardrail_version,
      source |-> source,
      content |-> << [text |-> grounding_source, qualifier |-> "grounding_source"],
                     [text |-> query, qualifier |-> "query"],
                     [text |-> guard_content, qualifier |-> "guard_content"] >> ]

\* f"Unknown action: {action}"
FormatUnknownAction(action) ==
    CASE action = "" -> "Unknown action: "
      [] action = "BLOCKED" -> "Unknown action: BLOCKED"
      [] action = "NONE" -> "Unknown action: NONE"
      [] action = "GUARDRAIL_INTERVENED" -> "Unknown action: GUARDRAIL_INTERVENED"

\* analyze_text: interpretation of the apply_guardrail response
analyze_text_response(response) ==
    LET action == Get(response, "action", "")
    IN  IF action = "NONE"
        THEN Return(<< TRUE, "", response >>)
        ELSE IF action = "GUARDRAIL_INTERVENED"
        THEN LET outputs == Get(response, "outputs", << EmptyDict >>)
             IN  IF Len(outputs) = 0
                 THEN Raise("IndexError")  \* [][0]
                 ELSE Return(<< FALSE,
                                Get(outputs[1], "text", "Guardrail intervened"),
                                response >>)
        ELSE Return(<< FALSE, FormatUnknownAction(action), response >>)

\* faulty variant: the ClientError is swallowed and the text counts as passed
analyze_text_swallows_client_error == Return(<< TRUE, "", EmptyDict >>)

\* analyze_text: except ClientError: print(...); raise
analyze_text_client_error == Raise("ClientError")

\* faulty variant: the query is guarded again instead of the generated text
analyze_output_guards_query(grounding_source, query, text) ==
    analyze_text_request(grounding_source, query, query, "OUTPUT")

\* analyze_prompt: analyze_text(grounding_source, query, query, "INPUT")
analyze_prompt_request(grounding_source, query) ==
    analyze_text_request(grounding_source, query, query, "INPUT")

\* analyze_output: analyze_text(grounding_source, query, generated_text, "OUTPUT")
analyze_output_request(grounding_source, query, text) ==
    analyze_text_request(grounding_source, query, text, "OUTPUT")

\* faulty variant: the early return after a failed input check is missing
prompt_never_blocks(prompt_passed) == FALSE

\* generate_and_analyze: if not prompt_passed
prompt_blocks(prompt_passed) == ~prompt_passed

\* faulty variant: the result of the output check is ignored
output_never_blocks(output_passed) == FALSE

\* generate_and_analyze: if not output_passed
output_blocks(output_passed) == ~output_passed

\* generate_and_analyze: return False, prompt_message, ""
prompt_blocked_result(prompt_message) == << FALSE, prompt_message, "" >>

\* faulty variant: the generated text is handed back with the intervention
output_blocked_leaks_text(output_message) == << FALSE, output_message, generated_text[1] >>

\* generate_and_analyze: return False, output_message, ""
output_blocked_result(output_message) == << FALSE, output_message, "" >>

\* faulty variant: the text is dropped from the successful result
passed_result_drops_text(text) == << TRUE, "", "" >>

\* generate_and_analyze: return True, "", generated_text
passed_result(text) == << TRUE, "", text >>

Init ==
    /\ self = NewTextGenerationWithGuardrails
    /\ pc = "idle"
    /\ args = <<>>
    /\ prompt_result = <<>>
    /\ generated_text = <<>>
    /\ output_result = <<>>
    /\ result = <<>>
    /\ exc = ""
    /\ calls = <<>>
    /\ input_response = <<>>
    /\ model_response = <<>>
    /\ output_response = <<>>
    /\ guardrail_error = ""
    /\ at_pc = "idle"
    /\ at_args = <<>>
    /\ at_call = <<>>
    /\ at_response = <<>>
    /\ at_outcome = <<>>
    /\ aog_pc = "idle"
    /\ aog_output_text = <<>>
    /\ aog_call = <<>>
    /\ aog_response = <<>>
    /\ aog_fault = ""
    /\ aog_result = <<>>
    /\ rc_pc = "idle"
    /\ rc_args = <<>>
    /\ rc_calls = <<>>
    /\ rc_embedding = <<>>
    /\ rc_response = <<>>
    /\ rc_result = <<>>
    /\ cell_pc = "idle"
    /\ cell_notebook = ""
    /\ cell_query = <<>>
    /\ cell_context_prompt = <<>>
    /\ cell_input_prompt = <<>>
    /\ cell_llm_call = <<>>
    /\ cell_llm_response = <<>>
    /\ cell_raw_response = <<>>
    /\ cell_guardrail_response = <<>>
    /\ cell_exc = ""
    /\ main_pc = "idle"
    /\ main_args = <<>>
    /\ main_calls = <<>>
    /\ main_input = <<>>
    /\ main_generated_text = <<>>
    /\ main_output = <<>>
    /\ main_outcome = <<>>
    /\ main_exc = ""
    /\ memo = <<>>

\* generate_and_analyze is entered: analyze_prompt issues the INPUT check
GA_Call(grounding_source, query, max_new_tokens) ==
    /\ pc = "idle"
    /\ args' = << [ grounding_source |-> grounding_source,
                    query |-> query,
                    max_new_tokens |-> max_new_tokens,
                    temperature |-> "0.0" ] >>
    /\ calls' = << analyze_prompt_request(grounding_source, query) >>
    /\ pc' = "input_check"
    /\ UNCHANGED << cell_vars, main_vars, memo, at_vars, aog_vars, rc_vars, self, prompt_result, generated_text, output_result, result, exc,
                    input_response, model_response, output_response, guardrail_error >>

\* generate_and_analyze from the outcome of analyze_prompt up to the call of
\* predictor.predict
AfterPrompt(outcome) ==
    IF outcome.raised # ""
    THEN /\ pc' = "raised"
         /\ exc' = outcome.raised
         /\ UNCHANGED << prompt_result, result, calls >>
    ELSE /\ prompt_result' = << outcome.value >>
         /\ exc' = exc
         /\ IF prompt_blocks(outcome.value[1])
            THEN /\ result' = << prompt_blocked_result(outcome.value[2]) >>
                 /\ pc' = "returned"
                 /\ calls' = calls
            ELSE /\ calls' = Append(calls, generate_text_request(args[1].query,
                                                                 args[1].max_new_tokens,
                                                                 args[1].temperature))
                 /\ pc' = "generate"
                 /\ result' = result

\* apply_guardrail(source=INPUT) answers
GA_InputCheckReturns(response) ==
    /\ pc = "input_check"
    /\ input_response' = << response >>
    /\ AfterPrompt(analyze_text_response(response))
    /\ UNCHANGED << cell_vars, main_vars, memo, at_vars, aog_vars, rc_vars, self, args, generated_text, output_result,
                    model_response, output_response, guardrail_error >>

\* apply_guardrail(source=INPUT) raises ClientError
GA_InputCheckFails ==
    /\ pc = "input_check"
    /\ guardrail_error' = "INPUT"
    /\ AfterPrompt(analyze_text_client_error)
    /\ UNCHANGED << cell_vars, main_vars, memo, at_vars, aog_vars, rc_vars, self, args, generated_text, output_result,
                    input_response, model_response, output_response >>

\* predictor.predict answers: generate_text returns and analyze_output
\* issues the OUTPUT check
GA_ModelReturns(response) ==
    /\ pc = "generate"
    /\ model_response' = << response >>
    /\ generated_text' = << generate_text_result(response) >>
    /\ calls' = Append(calls, analyze_output_request(args[1].grounding_source,
                                                     args[1].query,
                                                     generate_text_result(response)))
    /\ pc' = "output_check"
    /\ UNCHANGED << cell_vars, main_vars, memo, at_vars, aog_vars, rc_vars, self, args, prompt_result, output_result, result, exc,
                    input_response, output_response, guardrail_error >>

\* predictor.predict raises: generate_text has no handler
GA_ModelFails ==
    /\ pc = "generate"
    /\ pc' = "raised"
    /\ exc' = "ModelError"
    /\ UNCHANGED << cell_vars, main_vars, memo, at_vars, aog_vars, rc_vars, self, args, prompt_result, generated_text, output_result, result,
                    calls, input_response, model_response, output_response,
                    guardrail_error >>

\* generate_and_analyze from the outcome of analyze_output to its return
AfterOutput(outcome) ==
    IF outcome.raised # ""
    THEN /\ pc' = "raised"
         /\ exc' = outcome.raised
         /\ UNCHANGED << output_result, result >>
    ELSE /\ output_result' = << outcome.value >>
         /\ exc' = exc
         /\ pc' = "returned"
         /\ result' = IF output_blocks(outcome.value[1])
                      THEN << output_blocked_result(outcome.value[2]) >>
                      ELSE << passed_result(generated_text[1]) >>

\* apply_guardrail(source=OUTPUT) answers
GA_OutputCheckReturns(response) ==
    /\ pc = "output_check"
    /\ output_response' = << response >>
    /\ AfterOutput(analyze_text_response(response))
    /\ UNCHANGED << cell_vars, main_vars, memo, at_vars, aog_vars, rc_vars, self, args, prompt_result, generated_text, calls,
                    input_response, model_response, guardrail_error >>

\* apply_guardrail(source=OUTPUT) raises ClientError
GA_OutputCheckFails ==
    /\ pc = "output_check"
    /\ guardrail_error' = "OUTPUT"
    /\ AfterOutput(analyze_text_client_error)
    /\ UNCHANGED << cell_vars, main_vars, memo, at_vars, aog_vars, rc_vars, self, args, prompt_result, generated_text, calls,
                    input_response, model_response, output_response >>

\* the invocation is over (returned or raised); its frame is discarded and
\* the object is ready for the next invocation
GA_Finish ==
    /\ pc \in { "returned", "raised" }
    /\ pc' = "idle"
    /\ args' = <<>>
    /\ prompt_result' = <<>>
    /\ generated_text' = <<>>
    /\ output_result' = <<>>
    /\ result' = <<>>
    /\ exc' = ""
    /\ calls' = <<>>
    /\ input_response' = <<>>
    /\ model_response' = <<>>
    /\ output_response' = <<>>
    /\ guardrail_error' = ""
    /\ UNCHANGED << cell_vars, main_vars, memo, at_vars, aog_vars, rc_vars, self >>

Next ==
    \/ \E g \in GroundingSources, q \in Queries,
          n \in { DefaultMaxNewTokens, MainMaxNewTokens } : GA_Call(g, q, n)
    \/ \E r \in GuardrailResponses : GA_InputCheckReturns(r)
    \/ GA_InputCheckFails
    \/ \E r \in PredictResponses : GA_ModelReturns(r)
    \/ GA_ModelFails
    \/ \E r \in GuardrailResponses : GA_OutputCheckReturns(r)
    \/ GA_OutputCheckFails
    \/ GA_Finish

Spec == Init /\ [][Next]_vars

(***************************************************************************)
(* analyze_text called on its own (as analyze_prompt and analyze_output    *)
(* do, and as main() does step by step)                                    *)
(***************************************************************************)
\* sources the API knows
Sources == { "INPUT", "OUTPUT" }
\* texts passed as guard_content: a query, or what generate_text returned
GuardContents == Queries \cup ModelTexts \cup { "" }

\* analyze_text is entered and issues the apply_guardrail request
AT_Call(grounding_source, query, guard_content, source) ==
    /\ at_pc = "idle"
    /\ at_args' = << [ grounding_source |-> grounding_source, query |-> query,
                       guard_content |-> guard_content, source |-> source ] >>
    /\ at_call' = << analyze_text_request(grounding_source, query, guard_content, source) >>
    /\ at_pc' = "apply_guardrail"
    /\ UNCHANGED << cell_vars, main_vars, memo, self, ga_vars, aog_vars, rc_vars, at_response, at_outcome >>

\* apply_guardrail answers and analyze_text interprets the answer
AT_Returns(response) ==
    /\ at_pc = "apply_guardrail"
    /\ at_response' = << response >>
    /\ at_outcome' = << analyze_text_response(response) >>
    /\ at_pc' = IF analyze_text_response(response).raised = "" THEN "returned" ELSE "raised"
    /\ UNCHANGED << cell_vars, main_vars, memo, self, ga_vars, aog_vars, rc_vars, at_args, at_call >>

\* apply_guardrail raises ClientError
AT_Fails ==
    /\ at_pc = "apply_guardrail"
    /\ at_outcome' = << analyze_text_client_error >>
    /\ at_pc' = IF analyze_text_client_error.raised = "" THEN "returned" ELSE "raised"
    /\ UNCHANGED << cell_vars, main_vars, memo, self, ga_vars, aog_vars, rc_vars, at_args, at_call, at_response >>

\* the call is over
AT_Finish ==
    /\ at_pc \in { "returned", "raised" }
    /\ at_pc' = "idle"
    /\ at_args' = <<>>
    /\ at_call' = <<>>
    /\ at_response' = <<>>
    /\ at_outcome' = <<>>
    /\ UNCHANGED << cell_vars, main_vars, memo, self, ga_vars, aog_vars, rc_vars >>

NextAnalyze ==
    \/ \E g \in GroundingSources, q \in Queries, c \in GuardContents, s \in Sources :
          AT_Call(g, q, c, s)
    \/ \E r \in GuardrailResponses : AT_Returns(r)
    \/ AT_Fails
    \/ AT_Finish

SpecAnalyze == Init /\ [][NextAnalyze]_vars

(***************************************************************************)
(* RAG notebook: apply_output_guardrail                                    *)
(***************************************************************************)
\* notebook globals guardrail_id and guardrail_version
rag_guardrail_id == "rag-guardrail-id"
rag_guardrail_version == "1"

\* what bedrock_client.apply_guardrail may raise
GuardrailCallErrors == { "ClientError", "ParamValidationError" }

\* apply_output_guardrail: the apply_guardrail request
apply_output_guardrail_request(output_text) ==
    [ api |-> "apply_guardrail",
      guardrailIdentifier |-> rag_guardrail_id,
      guardrailVersion |-> rag_guardrail_version,
      source |-> "OUTPUT",
      content |-> << [text |-> output_text] >> ]

\* faulty variant: the guardrail's text is used only when the action says
\* that the guardrail intervened
apply_output_guardrail_by_action(response, output_text) ==
    IF Get(response, "action", "") = "GUARDRAIL_INTERVENED"
       /\ Has(response, "outputs") /\ Len(response.outputs) > 0
    THEN IF Has(response.outputs[1], "text")
         THEN Return(response.outputs[1].text)
         ELSE Raise("KeyError")
    ELSE Return(output_text)

\* apply_output_guardrail: processing of the response inside the try block
apply_output_guardrail_response(response, output_text) ==
    IF Has(response, "outputs") /\ Len(response.outputs) > 0
    THEN IF Has(response.outputs[1], "text")
         THEN Return(response.outputs[1].text)
         ELSE Raise("KeyError")  \* response['outputs'][0]['text']
    ELSE Return(output_text)

\* faulty variant: the handler lets the exception out
apply_output_guardrail_reraises(e, output_text) == Raise(e)

\* apply_output_guardrail: except Exception as e: print(...); return output_text
apply_output_guardrail_except(e, output_text) == Return(output_text)

\* apply_output_guardrail is entered and issues the apply_guardrail request
AOG_Call(output_text) ==
    /\ aog_pc = "idle"
    /\ aog_output_text' = << output_text >>
    /\ aog_call' = << apply_output_guardrail_request(output_text) >>
    /\ aog_pc' = "apply_guardrail"
    /\ UNCHANGED << cell_vars, main_vars, memo, self, ga_vars, at_vars, rc_vars, aog_response, aog_fault, aog_result >>

\* the try block ended with outcome o: the function returns o's value, or
\* what the handler makes of o's exception
AOG_Complete(o) ==
    LET final == IF o.raised = ""
                 THEN o
                 ELSE apply_output_guardrail_except(o.raised, aog_output_text[1])
    IN  /\ aog_fault' = o.raised
        /\ IF final.raised = ""
           THEN aog_result' = << final.value >> /\ aog_pc' = "returned"
           ELSE aog_result' = aog_result /\ aog_pc' = "raised"

\* apply_guardrail answers
AOG_Returns(response) ==
    /\ aog_pc = "apply_guardrail"
    /\ aog_response' = << response >>
    /\ AOG_Complete(apply_output_guardrail_response(response, aog_output_text[1]))
    /\ UNCHANGED << cell_vars, main_vars, memo, self, ga_vars, at_vars, rc_vars, aog_output_text, aog_call >>

\* apply_guardrail raises
AOG_Fails(e) ==
    /\ aog_pc = "apply_guardrail"
    /\ AOG_Complete(Raise(e))
    /\ UNCHANGED << cell_vars, main_vars, memo, self, ga_vars, at_vars, rc_vars, aog_output_text, aog_call,
                    aog_response >>

\* the call is over
AOG_Finish ==
    /\ aog_pc \in { "returned", "raised" }
    /\ aog_pc' = "idle"
    /\ aog_output_text' = <<>>
    /\ aog_call' = <<>>
    /\ aog_response' = <<>>
    /\ aog_fault' = ""
    /\ aog_result' = <<>>
    /\ UNCHANGED << cell_vars, main_vars, memo, self, ga_vars, at_vars, rc_vars >>

NextOutputGuardrail ==
    \/ \E t \in ModelTexts \cup { "" } : AOG_Call(t)
    \/ \E r \in GuardrailResponses : AOG_Returns(r)
    \/ \E e \in GuardrailCallErrors : AOG_Fails(e)
    \/ AOG_Finish

SpecOutputGuardrail == Init /\ [][NextOutputGuardrail]_vars

(***************************************************************************)
(* RAG notebook: retrieve_context                                          *)
(***************************************************************************)
\* notebook globals
EMBED_ENDPOINT_NAME == "embedding-endpoint"
OPENSEARCH_INDEX_NAME == "rag-index"

\* vectors the embedding endpoint answers with
Vectors == { "v1", "v2" }
\* the 'contexts' field of the indexed documents
Contexts == { "c1", "c2", "c3" }
\* one search hit: {'_source': {'contexts': ...}}
Hits == { ("_source" :> [contexts |-> c]) : c \in Contexts }
\* answers of the index to a search of the given size: at most size hits
SearchResponses(size) == { [hits |-> [hits |-> h]] : h \in SeqsUpTo(Hits, size) }

\* get_embedding(query, EMBED_ENDPOINT_NAME)
get_embedding_request(text, embed_endpoint_name) ==
    [ api |-> "embed_query", endpoint |-> embed_endpoint_name, text |-> text ]

\* faulty variant: the result size is the default k whatever k is given
search_request_default_size(query_embedding, k) ==
    [ api |-> "search",
      index |-> OPENSEARCH_INDEX_NAME,
      body |-> [ size |-> DefaultK,
                 query |-> [ knn |-> [ context_vector |->
                                         [ vector |-> query_embedding, k |-> k ] ] ] ] ]

\* retrieve_context: search_body and the aos_client.search call
search_request(query_embedding, k) ==
    [ api |-> "search",
      index |-> OPENSEARCH_INDEX_NAME,
      body |-> [ size |-> k,
                 query |-> [ knn |-> [ context_vector |->
                                         [ vector |-> query_embedding, k |-> k ] ] ] ] ]

\* faulty variant: only the first hit is kept
retrieve_context_first_hit(response) ==
    LET hits == response.hits.hits
    IN  IF Len(hits) = 0 THEN <<>> ELSE << hits[1]["_source"].contexts >>

\* retrieve_context: [hit["_source"]['contexts'] for hit in response["hits"]["hits"]]
retrieve_context_result(response) ==
    LET hits == response.hits.hits
    IN  [ i \in 1..Len(hits) |-> hits[i]["_source"].contexts ]

\* retrieve_context is entered and asks for the embedding of the query
RC_Call(query, k) ==
    /\ rc_pc = "idle"
    /\ rc_args' = << [ query |-> query, k |-> k ] >>
    /\ rc_calls' = << get_embedding_request(query, EMBED_ENDPOINT_NAME) >>
    /\ rc_pc' = "embed"
    /\ UNCHANGED << cell_vars, main_vars, memo, self, ga_vars, at_vars, aog_vars, rc_embedding, rc_response, rc_result >>

\* the embedding arrives and the search is issued
RC_EmbedReturns(vector) ==
    /\ rc_pc = "embed"
    /\ rc_embedding' = << vector >>
    /\ rc_calls' = Append(rc_calls, search_request(vector, rc_args[1].k))
    /\ rc_pc' = "search"
    /\ UNCHANGED << cell_vars, main_vars, memo, self, ga_vars, at_vars, aog_vars, rc_args, rc_response, rc_result >>

\* the search answers, with at most the requested number of hits, and
\* retrieve_context returns the contexts
RC_SearchReturns(response) ==
    /\ rc_pc = "search"
    /\ response \in SearchResponses(rc_calls[2].body.size)
    /\ rc_response' = << response >>
    /\ rc_result' = << retrieve_context_result(response) >>
    /\ rc_pc' = "returned"
    /\ UNCHANGED << cell_vars, main_vars, memo, self, ga_vars, at_vars, aog_vars, rc_args, rc_calls, rc_embedding >>

\* the embedding endpoint or the index raises: retrieve_context has no handler
RC_Fails ==
    /\ rc_pc \in { "embed", "search" }
    /\ rc_pc' = "raised"
    /\ UNCHANGED << cell_vars, main_vars, memo, self, ga_vars, at_vars, aog_vars, rc_args, rc_calls, rc_embedding,
                    rc_response, rc_result >>

\* the call is over
RC_Finish ==
    /\ rc_pc \in { "returned", "raised" }
    /\ rc_pc' = "idle"
    /\ rc_args' = <<>>
    /\ rc_calls' = <<>>
    /\ rc_embedding' = <<>>
    /\ rc_response' = <<>>
    /\ rc_result' = <<>>
    /\ UNCHANGED << cell_vars, main_vars, memo, self, ga_vars, at_vars, aog_vars >>

NextRetrieve ==
    \/ \E q \in Queries, k \in 1..MaxK : RC_Call(q, k)
    \/ \E v \in Vectors : RC_EmbedReturns(v)
    \/ \E r \in SearchResponses(MaxK) : RC_SearchReturns(r)
    \/ RC_Fails
    \/ RC_Finish

SpecRetrieve == Init /\ [][NextRetrieve]_vars

(***************************************************************************)
(* main(): the pipeline step by step                                       *)
(***************************************************************************)
\* main: temperature = 0.0
MainTemperature == "0.0"

\* faulty variant: the input verdict is not looked at
main_ignores_input_verdict(input_passed) == FALSE

\* main: if not input_passed
main_input_intervened(input_passed) == ~input_passed

\* main: if not output_passed
main_output_intervened(output_passed) == ~output_passed

\* what main prints as the outcome of the run
main_print(kind, text) == [ kind |-> kind, text |-> text ]

\* main reaches the input analysis: analyze_prompt issues the INPUT check
MAIN_Call(grounding_source, query) ==
    /\ main_pc = "idle"
    /\ main_args' = << [ grounding_source |-> grounding_source,
                         query |-> query,
                         max_new_tokens |-> MainMaxNewTokens,
                         temperature |-> MainTemperature ] >>
    /\ main_calls' = << analyze_prompt_request(grounding_source, query) >>
    /\ main_pc' = "input_check"
    /\ UNCHANGED << self, ga_vars, at_vars, aog_vars, rc_vars, cell_vars, memo,
                    main_input, main_generated_text, main_output, main_outcome,
                    main_exc >>

\* main from the outcome of analyze_prompt up to the call of predictor.predict
MainAfterPrompt(outcome) ==
    IF outcome.raised # ""
    THEN /\ main_pc' = "raised"
         /\ main_exc' = outcome.raised
         /\ UNCHANGED << main_input, main_outcome, main_calls >>
    ELSE /\ main_input' = << outcome.value >>
         /\ main_exc' = main_exc
         /\ IF main_input_intervened(outcome.value[1])
            THEN /\ main_outcome' =
                       << main_print("Input Guardrail Intervened", outcome.value[2]) >>
                 /\ main_pc' = "returned"
                 /\ main_calls' = main_calls
            ELSE /\ main_calls' =
                       Append(main_calls,
                              generate_text_request(main_args[1].query,
                                                    main_args[1].max_new_tokens,
                                                    main_args[1].temperature))
                 /\ main_pc' = "generate"
                 /\ main_outcome' = main_outcome

\* apply_guardrail(source=INPUT) answers
MAIN_InputCheckReturns(response) ==
    /\ main_pc = "input_check"
    /\ MainAfterPrompt(analyze_text_response(response))
    /\ UNCHANGED << self, ga_vars, at_vars, aog_vars, rc_vars, cell_vars, memo,
                    main_args, main_generated_text, main_output >>

\* apply_guardrail(source=INPUT) raises ClientError
MAIN_InputCheckFails ==
    /\ main_pc = "input_check"
    /\ MainAfterPrompt(analyze_text_client_error)
    /\ UNCHANGED << self, ga_vars, at_vars, aog_vars, rc_vars, cell_vars, memo,
                    main_args, main_generated_text, main_output >>

\* predictor.predict answers: generate_text returns and analyze_output
\* issues the OUTPUT check
MAIN_ModelReturns(response) ==
    /\ main_pc = "generate"
    /\ main_generated_text' = << generate_text_result(response) >>
    /\ main_calls' = Append(main_calls,
                            analyze_output_request(main_args[1].grounding_source,
                                                   main_args[1].query,
                                                   generate_text_result(response)))
    /\ main_pc' = "output_check"
    /\ UNCHANGED << self, ga_vars, at_vars, aog_vars, rc_vars, cell_vars, memo,
                    main_args, main_input, main_output, main_outcome, main_exc >>

\* predictor.predict raises: neither generate_text nor main has a handler
MAIN_ModelFails ==
    /\ main_pc = "generate"
    /\ main_exc' = "ModelError"
    /\ main_pc' = "raised"
    /\ UNCHANGED << self, ga_vars, at_vars, aog_vars, rc_vars, cell_vars, memo,
                    main_args, main_calls, main_input, main_generated_text,
                    main_output, main_outcome >>

\* main from the outcome of analyze_output to its end
MainAfterOutput(outcome) ==
    IF outcome.raised # ""
    THEN /\ main_pc' = "raised"
         /\ main_exc' = outcome.raised
         /\ UNCHANGED << main_output, main_outcome >>
    ELSE /\ main_output' = << outcome.value >>
         /\ main_exc' = main_exc
         /\ main_pc' = "returned"
         /\ main_outcome' =
               IF main_output_intervened(outcome.value[1])
               THEN << main_print("Output Guardrail Intervened", outcome.value[2]) >>
               ELSE << main_print("Model Response Passed", main_generated_text[1]) >>

\* apply_guardrail(source=OUTPUT) answers
MAIN_OutputCheckReturns(response) ==
    /\ main_pc = "output_check"
    /\ MainAfterOutput(analyze_text_response(response))
    /\ UNCHANGED << self, ga_vars, at_vars, aog_vars, rc_vars, cell_vars, memo,
                    main_args, main_calls, main_input, main_generated_text >>

\* apply_guardrail(source=OUTPUT) raises ClientError
MAIN_OutputCheckFails ==
    /\ main_pc = "output_check"
    /\ MainAfterOutput(analyze_text_client_error)
    /\ UNCHANGED << self, ga_vars, at_vars, aog_vars, rc_vars, cell_vars, memo,
                    main_args, main_calls, main_input, main_generated_text >>

(***************************************************************************)
(* main() and generate_and_analyze on the same request and responses       *)
(***************************************************************************)
\* generate_and_analyze has run to its end; main() is then run on the same
\* grounding source and query, and each remote call of main gets the answer
\* (or the exception) that the same call of generate_and_analyze got; a call
\* that generate_and_analyze did not make is answered freely
SameInputResponses ==
    IF input_response # <<>> THEN { input_response[1] }
    ELSE IF guardrail_error = "INPUT" THEN {} ELSE GuardrailResponses
SameInputFails == input_response = <<>>

SameModelResponses ==
    IF model_response # <<>> THEN { model_response[1] }
    ELSE IF exc = "ModelError" THEN {} ELSE PredictResponses
SameModelFails == model_response = <<>>

SameOutputResponses ==
    IF output_response # <<>> THEN { output_response[1] }
    ELSE IF guardrail_error = "OUTPUT" THEN {} ELSE GuardrailResponses
SameOutputFails == output_response = <<>>

EQ_MainCall ==
    /\ pc \in { "returned", "raised" }
    /\ MAIN_Call(args[1].grounding_source, args[1].query)

EQ_MainInputCheckReturns ==
    \E r \in SameInputResponses : MAIN_InputCheckReturns(r)

EQ_MainInputCheckFails == SameInputFails /\ MAIN_InputCheckFails

EQ_MainModelReturns ==
    \E r \in SameModelResponses : MAIN_ModelReturns(r)

EQ_MainModelFails == SameModelFails /\ MAIN_ModelFails

EQ_MainOutputCheckReturns ==
    \E r \in SameOutputResponses : MAIN_OutputCheckReturns(r)

EQ_MainOutputCheckFails == SameOutputFails /\ MAIN_OutputCheckFails

\* both runs are over: the next request
EQ_Finish ==
    /\ main_pc \in { "returned", "raised" }
    /\ main_pc' = "idle"
    /\ main_args' = <<>>
    /\ main_calls' = <<>>
    /\ main_input' = <<>>
    /\ main_generated_text' = <<>>
    /\ main_output' = <<>>
    /\ main_outcome' = <<>>
    /\ main_exc' = ""
    /\ pc' = "idle"
    /\ args' = <<>>
    /\ prompt_result' = <<>>
    /\ generated_text' = <<>>
    /\ output_result' = <<>>
    /\ result' = <<>>
    /\ exc' = ""
    /\ calls' = <<>>
    /\ input_response' = <<>>
    /\ model_response' = <<>>
    /\ output_response' = <<>>
    /\ guardrail_error' = ""
    /\ UNCHANGED << self, at_vars, aog_vars, rc_vars, cell_vars, memo >>

NextEquiv ==
    \/ \E g \in GroundingSources, q \in Queries,
          n \in { DefaultMaxNewTokens, MainMaxNewTokens } : GA_Call(g, q, n)
    \/ \E r \in GuardrailResponses : GA_InputCheckReturns(r)
    \/ GA_InputCheckFails
    \/ \E r \in PredictResponses : GA_ModelReturns(r)
    \/ GA_ModelFails
    \/ \E r \in GuardrailResponses : GA_OutputCheckReturns(r)
    \/ GA_OutputCheckFails
    \/ EQ_MainCall
    \/ EQ_MainInputCheckReturns
    \/ EQ_MainInputCheckFails
    \/ EQ_MainModelReturns
    \/ EQ_MainModelFails
    \/ EQ_MainOutputCheckReturns
    \/ EQ_MainOutputCheckFails
    \/ EQ_Finish

SpecEquiv == Init /\ [][NextEquiv]_vars

(***************************************************************************)
(* generate_and_analyze: one request served twice                          *)
(***************************************************************************)
\* the object serves any number of invocations; one finished invocation is
\* remembered (its arguments, the answers it got, its calls and its outcome)
\* and the next invocation is given the same arguments and the same answers;
\* a call the remembered invocation did not make is answered freely
Remembered ==
    [ args |-> args[1],
      input_response |-> input_response,
      model_response |-> model_response,
      output_response |-> output_response,
      guardrail_error |-> guardrail_error,
      calls |-> calls,
      pc |-> pc,
      result |-> result,
      exc |-> exc,
      self |-> self ]

\* the frame of a finished invocation is discarded
FrameDiscarded ==
    /\ pc' = "idle"
    /\ args' = <<>>
    /\ prompt_result' = <<>>
    /\ generated_text' = <<>>
    /\ output_result' = <<>>
    /\ result' = <<>>
    /\ exc' = ""
    /\ calls' = <<>>
    /\ input_response' = <<>>
    /\ model_response' = <<>>
    /\ output_response' = <<>>
    /\ guardrail_error' = ""

AgainInputResponses ==
    IF memo[1].input_response # <<>> THEN { memo[1].input_response[1] }
    ELSE IF memo[1].guardrail_error = "INPUT" THEN {} ELSE GuardrailResponses
AgainInputFails == memo[1].input_response = <<>>

AgainModelResponses ==
    IF memo[1].model_response # <<>> THEN { memo[1].model_response[1] }
    ELSE IF memo[1].exc = "ModelError" THEN {} ELSE PredictResponses
AgainModelFails == memo[1].model_response = <<>>

AgainOutputResponses ==
    IF memo[1].output_response # <<>> THEN { memo[1].output_response[1] }
    ELSE IF memo[1].guardrail_error = "OUTPUT" THEN {} ELSE GuardrailResponses
AgainOutputFails == memo[1].output_response = <<>>

\* an invocation is over and is the one remembered
ST_Remember ==
    /\ memo = <<>>
    /\ pc \in { "returned", "raised" }
    /\ memo' = << Remembered >>
    /\ FrameDiscarded
    /\ UNCHANGED << self, at_vars, aog_vars, rc_vars, cell_vars, main_vars >>

\* the second invocation is over
ST_Forget ==
    /\ memo # <<>>
    /\ pc \in { "returned", "raised" }
    /\ memo' = <<>>
    /\ FrameDiscarded
    /\ UNCHANGED << self, at_vars, aog_vars, rc_vars, cell_vars, main_vars >>

\* invocations before the remembered one
ST_Earlier ==
    /\ memo = <<>>
    /\ Next

\* the invocation after the remembered one
ST_Again ==
    /\ memo # <<>>
    /\ \/ GA_Call(memo[1].args.grounding_source, memo[1].args.query,
                  memo[1].args.max_new_tokens)
       \/ \E r \in AgainInputResponses : GA_InputCheckReturns(r)
       \/ AgainInputFails /\ GA_InputCheckFails
       \/ \E r \in AgainModelResponses : GA_ModelReturns(r)
       \/ AgainModelFails /\ GA_ModelFails
       \/ \E r \in AgainOutputResponses : GA_OutputCheckReturns(r)
       \/ AgainOutputFails /\ GA_OutputCheckFails

NextStateless ==
    \/ ST_Earlier
    \/ ST_Remember
    \/ ST_Again
    \/ ST_Forget

SpecStateless == Init /\ [][NextStateless]_vars

(***************************************************************************)
(* RAG notebooks: the query cells 4.1 and 4.2                              *)
(***************************************************************************)
\* the two RAG notebooks: the lab notebook and the workshop notebook; their
\* query cells have the same code and differ in the globals they use
Notebooks == { "lab", "workshop" }

\* create_guardrail(blockedInputMessaging=..., blockedOutputsMessaging=...)
blockedInputMessaging(notebook) ==
    "This request cannot be processed due to safety protocols."

blockedOutputsMessaging(notebook) ==
    IF notebook = "lab"
    THEN "Response modified per compliance guidelines."
    ELSE "Response blocked per compliance guidelines."

\* str(x) of an optional text: None prints as 'None'
str(x) == IF x = <<>> THEN "None" ELSE x[1]

\* PROMPT.format(question=..., context=...): the pieces of prompt_template
\* with the two placeholders filled in
PROMPT_format(notebook, question, context) ==
    IF notebook = "lab"
    THEN << "Answer the question using the provided context.\nQuestion: ", question,
            "\nContext: ", str(context), "\nAnswer:" >>
    ELSE << "system: Answer the following question using the provided context.\nContext: ",
            str(context), "\nQuestion: ", question, "\nAnswer:" >>

\* sagemaker_llm = SagemakerEndpoint(..., model_kwargs=...)
llm_model_kwargs(notebook) ==
    IF notebook = "lab"
    THEN [ temperature |-> "1e-10" ]
    ELSE [ temperature |-> "1e-10", max_new_tokens |-> "250" ]

\* ContentHandler.transform_input: the body sent to the model endpoint
transform_input(prompt, model_kwargs) ==
    [ api |-> "invoke_endpoint", inputs |-> prompt, parameters |-> model_kwargs ]

\* ContentHandler.transform_output: response_json["generated_text"]
transform_output(response_json) ==
    IF Has(response_json, "generated_text")
    THEN Return(response_json.generated_text)
    ELSE Raise("KeyError")

\* get_opensearch_vector_context: the first retrieved context, or None
context_prompt_of(contexts) ==
    IF Len(contexts) > 0 THEN << contexts[1] >> ELSE <<>>

\* faulty variant: the guardrail is applied to the user's query
cell_guards_query == cell_query[1]

\* the argument of apply_output_guardrail in the cell: raw_response
cell_guarded_text == cell_raw_response[1]

\* the answer of the guardrail service when it blocks the guarded content:
\* the messaging configured for the source of the request
guardrail_blocks(notebook, request) ==
    [ action |-> "GUARDRAIL_INTERVENED",
      outputs |-> << [ text |-> IF request.source = "INPUT"
                                THEN blockedInputMessaging(notebook)
                                ELSE blockedOutputsMessaging(notebook) ] >> ]

\* the cell is run with a query
CELL_Start(notebook, q) ==
    /\ cell_pc = "idle"
    /\ rc_pc = "idle"
    /\ aog_pc = "idle"
    /\ cell_notebook' = notebook
    /\ cell_query' = << q >>
    /\ cell_pc' = "get_context"
    /\ UNCHANGED << self, ga_vars, at_vars, aog_vars, rc_vars, main_vars, memo,
                    cell_context_prompt, cell_input_prompt, cell_llm_call,
                    cell_llm_response, cell_raw_response, cell_guardrail_response,
                    cell_exc >>

\* get_opensearch_vector_context(query) calls retrieve_context(input_query)
CELL_RetrieveContext ==
    /\ cell_pc = "get_context"
    /\ RC_Call(cell_query[1], DefaultK)

\* retrieve_context raised: the cell stops
CELL_RetrieveFails ==
    /\ cell_pc = "get_context"
    /\ rc_pc = "raised"
    /\ cell_exc' = "RetrievalError"
    /\ cell_pc' = "raised"
    /\ UNCHANGED << self, ga_vars, at_vars, aog_vars, rc_vars, main_vars, memo,
                    cell_notebook, cell_query, cell_context_prompt, cell_input_prompt,
                    cell_llm_call, cell_llm_response, cell_raw_response,
                    cell_guardrail_response >>

\* retrieval returned: context_prompt and input_prompt are built and
\* sagemaker_llm(input_prompt) sends the request to the model endpoint
CELL_Generate ==
    /\ cell_pc = "get_context"
    /\ rc_pc = "returned"
    /\ LET context_prompt == context_prompt_of(rc_result[1])
           input_prompt == PROMPT_format(cell_notebook, cell_query[1], context_prompt)
       IN  /\ cell_context_prompt' = context_prompt
           /\ cell_input_prompt' = << input_prompt >>
           /\ cell_llm_call' =
                 << transform_input(input_prompt, llm_model_kwargs(cell_notebook)) >>
    /\ cell_pc' = "generate"
    /\ UNCHANGED << self, ga_vars, at_vars, aog_vars, rc_vars, main_vars, memo,
                    cell_notebook, cell_query, cell_llm_response, cell_raw_response,
                    cell_guardrail_response, cell_exc >>

\* the model endpoint answers: raw_response is the generated text, or
\* transform_output raises and the cell stops
CELL_LlmReturns(response) ==
    /\ cell_pc = "generate"
    /\ cell_llm_response' = << response >>
    /\ LET o == transform_output(response)
       IN  IF o.raised = ""
           THEN /\ cell_raw_response' = << o.value >>
                /\ cell_pc' = "guard"
                /\ cell_exc' = cell_exc
           ELSE /\ cell_raw_response' = cell_raw_response
                /\ cell_pc' = "raised"
                /\ cell_exc' = o.raised
    /\ UNCHANGED << self, ga_vars, at_vars, aog_vars, rc_vars, main_vars, memo,
                    cell_notebook, cell_query, cell_context_prompt, cell_input_prompt,
                    cell_llm_call, cell_guardrail_response >>

\* the model endpoint raises: the cell stops
CELL_LlmFails ==
    /\ cell_pc = "generate"
    /\ cell_exc' = "ModelError"
    /\ cell_pc' = "raised"
    /\ UNCHANGED << self, ga_vars, at_vars, aog_vars, rc_vars, main_vars, memo,
                    cell_notebook, cell_query, cell_context_prompt, cell_input_prompt,
                    cell_llm_call, cell_llm_response, cell_raw_response,
                    cell_guardrail_response >>

\* guardrail_response = apply_output_guardrail(raw_response) is entered
CELL_ApplyGuardrail ==
    /\ cell_pc = "guard"
    /\ AOG_Call(cell_guarded_text)

\* the guardrail blocks the guarded content
CELL_GuardrailBlocks ==
    /\ cell_pc = "guard"
    /\ aog_pc = "apply_guardrail"
    /\ AOG_Returns(guardrail_blocks(cell_notebook, aog_call[1]))

\* apply_output_guardrail is over: its value is guardrail_response
CELL_Done ==
    /\ cell_pc = "guard"
    /\ aog_pc \in { "returned", "raised" }
    /\ IF aog_pc = "returned"
       THEN /\ cell_guardrail_response' = aog_result
            /\ cell_pc' = "done"
            /\ cell_exc' = cell_exc
       ELSE /\ cell_guardrail_response' = cell_guardrail_response
            /\ cell_pc' = "raised"
            /\ cell_exc' = aog_fault
    /\ UNCHANGED << self, ga_vars, at_vars, aog_vars, rc_vars, main_vars, memo,
                    cell_notebook, cell_query, cell_context_prompt, cell_input_prompt,
                    cell_llm_call, cell_llm_response, cell_raw_response >>

\* the next cell is run: the variables are assigned anew
CELL_Finish ==
    /\ cell_pc \in { "done", "raised" }
    /\ cell_pc' = "idle"
    /\ cell_notebook' = ""
    /\ cell_query' = <<>>
    /\ cell_context_prompt' = <<>>
    /\ cell_input_prompt' = <<>>
    /\ cell_llm_call' = <<>>
    /\ cell_llm_response' = <<>>
    /\ cell_raw_response' = <<>>
    /\ cell_guardrail_response' = <<>>
    /\ cell_exc' = ""
    /\ rc_pc' = "idle"
    /\ rc_args' = <<>>
    /\ rc_calls' = <<>>
    /\ rc_embedding' = <<>>
    /\ rc_response' = <<>>
    /\ rc_result' = <<>>
    /\ aog_pc' = "idle"
    /\ aog_output_text' = <<>>
    /\ aog_call' = <<>>
    /\ aog_response' = <<>>
    /\ aog_fault' = ""
    /\ aog_result' = <<>>
    /\ UNCHANGED << self, ga_vars, at_vars, main_vars, memo >>

NextCell ==
    \/ \E nb \in Notebooks, q \in Queries : CELL_Start(nb, q)
    \/ CELL_RetrieveContext
    \/ \E v \in Vectors : RC_EmbedReturns(v)
    \/ \E r \in SearchResponses(MaxK) : RC_SearchReturns(r)
    \/ RC_Fails
    \/ CELL_RetrieveFails
    \/ CELL_Generate
    \/ \E r \in PredictResponses : CELL_LlmReturns(r)
    \/ CELL_LlmFails
    \/ CELL_ApplyGuardrail
    \/ \E r \in GuardrailResponses : AOG_Returns(r)
    \/ \E e \in GuardrailCallErrors : AOG_Fails(e)
    \/ CELL_GuardrailBlocks
    \/ CELL_Done
    \/ CELL_Finish

SpecCell == Init /\ [][NextCell]_vars

(***************************************************************************)
(* generate_and_analyze: properties                                        *)
(***************************************************************************)
\* the guardrail let the checked text through: its verdict is action NONE
Passed(response) == response # <<>> /\ Get(response[1], "action", "") = "NONE"

\* the kind of the i-th remote call of the pipeline
PipelineStep(i) ==
    CASE i = 1 -> "apply_guardrail" [] i = 2 -> "predict" [] i = 3 -> "apply_guardrail"

\* C1: the remote calls of one generate_and_analyze invocation are, in this
\* order and each at most once, the INPUT guardrail check, the model
\* generation and the OUTPUT guardrail check; the model is invoked only
\* after the input check has answered, the output check is issued only
\* after the model has answered, and it guards exactly the text the model
\* returned.
C1_PipelineOrder ==
    /\ Len(calls) <= 3
    /\ \A i \in 1..Len(calls) : calls[i].api = PipelineStep(i)
    /\ Len(calls) >= 1 => calls[1].source = "INPUT"
    /\ Len(calls) >= 2 => input_response # <<>>
    /\ Len(calls) >= 3 =>
          /\ calls[3].source = "OUTPUT"
          /\ model_response # <<>>
          /\ calls[3].content[3].text = Get(model_response[1], "generated_text", "")

C1_Witness ==
    /\ pc = "returned"
    /\ Len(calls) = 3
    /\ calls[3].content[3].text = "t1"

\* C2: when the input guardrail check does not pass (action
\* GUARDRAIL_INTERVENED, missing or unknown) the invocation makes no call
\* to the model and no output guardrail check: the input check stays its
\* only remote call.
C2_BlockedInputNeverReachesModel ==
    (input_response # <<>> /\ ~Passed(input_response)) => Len(calls) = 1

C2_Witness ==
    /\ pc = "returned"
    /\ input_response = << [action |-> "GUARDRAIL_INTERVENED",
                            outputs |-> << [text |-> "blocked-messaging"] >>] >>
    /\ Len(calls) = 1

\* C3: generate_and_analyze returns (True, "", t) exactly when the input
\* check passed, the model returned t and the output check of t passed;
\* every other returning execution has first component False.
C3_PassedIffBothChecksPass ==
    pc = "returned" =>
        /\ result[1][1] \in BOOLEAN
        /\ result[1][1] <=> ( /\ Passed(input_response)
                              /\ model_response # <<>>
                              /\ Passed(output_response) )
        /\ result[1][1] =>
              /\ result[1] = << TRUE, "", Get(model_response[1], "generated_text", "") >>
              /\ calls[3].content[3].text = result[1][3]

C3_Witness ==
    /\ pc = "returned"
    /\ result = << << TRUE, "", "t1" >> >>

\* the message analyze_prompt / analyze_output returned for the first check
\* that did not pass
FirstFailedMessage ==
    IF ~prompt_result[1][1] THEN prompt_result[1][2] ELSE output_result[1][2]

C6_ClientErrorPropagates ==
    guardrail_error # "" =>
        /\ pc = "raised"
        /\ exc = "ClientError"
        /\ result = <<>>
        /\ guardrail_error = "INPUT" => Len(calls) = 1
        /\ guardrail_error = "OUTPUT" => (Len(calls) = 3 /\ generated_text # <<>>)

C6_Witness ==
    /\ guardrail_error = "OUTPUT"
    /\ pc = "raised"
    /\ generated_text = << "t1" >>

(***************************************************************************)
(* analyze_text: properties                                                *)
(***************************************************************************)
\* C5: for every response of apply_guardrail, analyze_text yields a result
\* whose passed flag is True exactly when the response's action is "NONE"
\* (GUARDRAIL_INTERVENED, any other value and a missing action yield
\* passed = False) and whose details component is the response itself.
C5_FailClosedVerdict ==
    at_response # <<>> =>
        /\ at_outcome[1].raised = ""
        /\ at_outcome[1].value[1] = (Get(at_response[1], "action", "") = "NONE")
        /\ at_outcome[1].value[3] = at_response[1]

\* the texts the guardrail put in the outputs of a response
OutputTexts(response) ==
    LET outputs == Get(response, "outputs", <<>>)
    IN  { outputs[i].text : i \in { j \in 1..Len(outputs) : Has(outputs[j], "text") } }

\* C7: for every response of apply_guardrail, the message component that
\* analyze_text returns is a message text of the guardrail (a text of the
\* response's outputs) or the empty string.
C7_MessageIsGuardrailTextOrEmpty ==
    (at_response # <<>> /\ at_outcome[1].raised = "") =>
        at_outcome[1].value[2] \in OutputTexts(at_response[1]) \cup { "" }

C9_FailOpen ==
    /\ aog_pc # "raised"
    /\ aog_fault # "" => (aog_pc = "returned" /\ aog_result = aog_output_text)

C9_Witness ==
    /\ aog_pc = "returned"
    /\ aog_fault = "ClientError"
    /\ aog_result = << "t1" >>

(***************************************************************************)
(* retrieve_context: properties                                            *)
(***************************************************************************)
\* C10: retrieve_context(query, k) first embeds the query, then issues
\* exactly one k-nearest-neighbour search whose size and knn k both equal k
\* and whose vector is the embedding just computed, and returns one context
\* per hit, in the order of the hits; as the index answers with at most
\* size hits, the result has at most k elements.
C10_RetrieveContext ==
    /\ Len(rc_calls) <= 2
    /\ Len(rc_calls) >= 1 =>
          /\ rc_calls[1].api = "embed_query"
          /\ rc_calls[1].text = rc_args[1].query
    /\ Len(rc_calls) = 2 =>
          /\ rc_embedding # <<>>
          /\ rc_calls[2].api = "search"
          /\ rc_calls[2].body.size = rc_args[1].k
          /\ rc_calls[2].body.query.knn.context_vector.k = rc_args[1].k
          /\ rc_calls[2].body.query.knn.context_vector.vector = rc_embedding[1]
    /\ rc_pc = "returned" =>
          LET hits == rc_response[1].hits.hits
              contexts == rc_result[1]
          IN  /\ Len(rc_calls) = 2
              /\ Len(contexts) = Len(hits)
              /\ \A i \in 1..Len(hits) : contexts[i] = hits[i]["_source"].contexts
              /\ Len(contexts) <= rc_args[1].k

C10_Witness ==
    /\ rc_pc = "returned"
    /\ rc_args = << [query |-> "q1", k |-> 2] >>
    /\ rc_result = << << "c2", "c1" >> >>

(***************************************************************************)
(* RAG query cells: properties                                             *)
(***************************************************************************)
\* the elements of a sequence
Range(s) == { s[i] : i \in 1..Len(s) }

\* a remote call of the cell is issued in this step: the retrieval's
\* calls, the model request, the guardrail request
RetrievalCallIssued == Len(rc_calls') > Len(rc_calls)
ModelCallIssued == cell_llm_call' # cell_llm_call /\ cell_llm_call' # <<>>
GuardrailCallIssued == aog_call' # aog_call /\ aog_call' # <<>>

\* the order of the calls of one run of the cell
CellCallOrder ==
    /\ RetrievalCallIssued => (cell_llm_call = <<>> /\ aog_call = <<>>)
    /\ ModelCallIssued =>
          /\ cell_llm_call = <<>>
          /\ aog_call = <<>>
          /\ rc_pc = "returned"
          /\ cell_query[1] \in Range(cell_llm_call'[1].inputs)
          /\ str(context_prompt_of(rc_result[1])) \in Range(cell_llm_call'[1].inputs)
    /\ GuardrailCallIssued =>
          /\ aog_call = <<>>
          /\ cell_llm_call # <<>>
          /\ cell_raw_response # <<>>
          /\ cell_raw_response[1] = cell_llm_response[1].generated_text
          /\ aog_call'[1].source = "OUTPUT"
          /\ aog_call'[1].content = << [text |-> cell_raw_response[1]] >>

\* a cell that ran to its end made each of its calls
CellCallsMade ==
    cell_pc = "done" =>
        /\ Len(rc_calls) = 2
        /\ cell_llm_call # <<>>
        /\ aog_call # <<>>
        /\ aog_call[1].source = "OUTPUT"

\* C11: in a RAG query cell the steps run in the order context retrieval,
\* model generation, output guardrail: the model is invoked exactly once,
\* after retrieval has returned, with a prompt that holds the user's query
\* and the retrieved context; the guardrail is applied exactly once, to the
\* model's raw response, with source OUTPUT; no guardrail call is made
\* before generation, so none guards the user's query on its way in.
C11_CellOrder == [](CellCallsMade) /\ [][CellCallOrder]_vars

C11_Witness ==
    /\ cell_pc = "done"
    /\ cell_context_prompt = << "c1" >>
    /\ aog_call[1].content[1].text = "t1"
    /\ cell_guardrail_response = << "masked-content" >>

\* the guardrail blocked the content it was asked to guard in this run
GuardrailBlocked ==
    /\ aog_response # <<>>
    /\ aog_response[1] = guardrail_blocks(cell_notebook, aog_call[1])

\* C12: in the notebook whose guardrail is created with blockedInputMessaging
\* "This request cannot be processed due to safety protocols." and
\* blockedOutputsMessaging "Response modified per compliance guidelines.",
\* when the guardrail blocks the answer to a query, the answer with
\* guardrails of the cell is the preconfigured response "This request
\* cannot be processed due to safety protocols" (with or without the full
\* stop of the configured text).
C12_BlockedAnswerIsSafetyMessage ==
    (cell_pc = "done" /\ cell_notebook = "lab" /\ GuardrailBlocked) =>
        cell_guardrail_response[1] \in
            { "This request cannot be processed due to safety protocols",
              "This request cannot be processed due to safety protocols." }

(***************************************************************************)
(* main() and generate_and_analyze: properties                             *)
(***************************************************************************)
\* two remote calls are the same call, up to the token budget of a
\* generation request
SameCallUpToBudget(c, d) ==
    \/ c = d
    \/ /\ c.api = "predict" /\ d.api = "predict"
       /\ c.endpoint = d.endpoint
       /\ c.inputs = d.inputs
       /\ c.parameters.temperature = d.parameters.temperature
       /\ c.parameters.stop = d.parameters.stop

\* the outcome main printed
MainOutcome(kind) == main_outcome # <<>> /\ main_outcome[1].kind = kind

\* generate_and_analyze returned the message of the input check, of the
\* output check
ReturnsInputMessage ==
    /\ pc = "returned"
    /\ ~prompt_result[1][1]
    /\ result[1] = << FALSE, prompt_result[1][2], "" >>
ReturnsOutputMessage ==
    /\ pc = "returned"
    /\ prompt_result[1][1]
    /\ ~output_result[1][1]
    /\ result[1] = << FALSE, output_result[1][2], "" >>

\* C13: main() run step by step and generate_and_analyze are equivalent: on
\* the same grounding source and query and with the same answers of the
\* guardrail service and of the model endpoint, both issue the same
\* sequence of remote calls (the very same requests when
\* generate_and_analyze is given main's token budget), both end with the
\* same exception or both return, and main prints 'Model Response Passed'
\* exactly when generate_and_analyze returns passed = True (with the same
\* text), 'Input Guardrail Intervened' exactly when it returns the input
\* check's message, 'Output Guardrail Intervened' exactly when it returns
\* the output check's message, each time with that message.
C13_MainEquivalent ==
    main_pc \in { "returned", "raised" } =>
        /\ Len(main_calls) = Len(calls)
        /\ \A i \in 1..Len(calls) : SameCallUpToBudget(main_calls[i], calls[i])
        /\ args[1].max_new_tokens = MainMaxNewTokens => main_calls = calls
        /\ main_pc = pc
        /\ main_exc = exc
        /\ main_pc = "returned" =>
              /\ MainOutcome("Model Response Passed") <=> result[1][1]
              /\ MainOutcome("Model Response Passed") =>
                    main_outcome[1].text = result[1][3]
              /\ MainOutcome("Input Guardrail Intervened") <=> ReturnsInputMessage
              /\ MainOutcome("Output Guardrail Intervened") <=> ReturnsOutputMessage
              /\ ~MainOutcome("Model Response Passed") =>
                    main_outcome[1].text = result[1][2]

C13_Witness ==
    /\ main_pc = "returned"
    /\ MainOutcome("Output Guardrail Intervened")
    /\ main_outcome[1].text = "blocked-messaging"
    /\ Len(main_calls) = 3
    /\ args[1].max_new_tokens = DefaultMaxNewTokens

=============================================================================
